---- MODULE Spec2Model ----
(***************************************************************************)
(* graph_csr: an on-disk CSR builder, its memory-mapped view and the       *)
(* double-buffered parallel compute engine that runs on the view.          *)
(*                                                                         *)
(* SpecBuild   : one call of Graph::from_adjacency_list, of an input       *)
(*               adapter (from_binary_adjancency, from_txt_adjacency_list) *)
(*               or of Graph::load_graph per behaviour, on a destination   *)
(*               directory that is absent or left by an earlier build,     *)
(*               then GraphIterator::next on the view.                     *)
(* SpecCompute : ComputeGraph on a view, driven by the BFS, WCC and        *)
(*               counting programs of the tests and examples, or by an     *)
(*               arbitrary sequence of API calls; the workers of a push    *)
(*               interleave at every atomic load, compare-exchange,        *)
(*               fetch-add and store; save_data_to_file ends a program.    *)
(*                                                                         *)
(* Files are sequences of bytes (0..255) in the byte order of the host,    *)
(* taken little-endian (x86-64, aarch64).  A platform index (usize) is 8   *)
(* bytes; it is held as its two 32-bit halves [lo, hi] so that every value *)
(* the view can decode is represented exactly.                             *)
(***************************************************************************)
EXTENDS Integers, Sequences, FiniteSets, TLC

VARIABLES
    \* ---- builder (reading.rs) ----
    size_of_N,      \* std::mem::size_of::<N>() of the vertex-id type: 4 (u32) or 8 (u64)
    attempt,        \* which build into the destination directory this is: 1, 2, ..
    entry,          \* the function the caller invoked: "from_adjacency_list",
                    \* "from_binary_adjancency", "from_txt_adjacency_list" or "load_graph"
    reader,         \* the Read object handed to an input adapter (NoReader otherwise)
    input,          \* the edge stream handed to from_adjacency_list
    pos,            \* number of stream items consumed so far
    dir_exists,     \* whether destination_folder_name exists on disk
    dir_files,      \* names of the files present in destination_folder_name
    nodes_file,     \* bytes of vertex.csr (empty when absent)
    edges_file,     \* bytes of edge.csr (empty when absent)
    previous_node,  \* reading.rs:52
    edges_count,    \* reading.rs:53
    max,            \* reading.rs:54
    bpc,            \* builder position: "adapt", "create", "loop", "ok", "open" (load_graph
                    \* called directly), "err_exists", "err_unsorted", "err_stream",
                    \* "panic_overflow"
    \* ---- view (lib.rs) ----
    nodes,          \* Graph.nodes: the offsets as the view decodes them
    edges,          \* Graph.edges: the destinations as the view decodes them
    current_node,   \* GraphIterator.current_node
    iter_out,       \* the slices GraphIterator::next has yielded so far
    ipc,            \* view position: "idle", "iter", "done", "panic", "err_open"
    \* ---- compute engine (compute.rs) ----
    old_active,     \* ComputeGraph.old_active, indexed by vertex id
    new_active,     \* ComputeGraph.new_active
    old_data,       \* ComputeGraph.old_data
    new_data,       \* ComputeGraph.new_data
    mode,           \* the controller's program: name "bfs", "wcc", "count" or "api"
                    \* ("none" in SpecBuild), the source of bfs, the active set of count
    script,         \* the calls the controller's program still makes before its loop
    cpc,            \* controller position: "run", "pushing", "panicked", "saved"
    func,           \* the relaxation closure of the push in flight or last made
    tasks,          \* per vertex, the position of the worker item of the push in flight
    last_call,      \* name of the API call that completed last
    sweep,          \* the buffers as the last push found them (NoSweep when not kept)
    log,            \* per edge occurrence, what its relaxation call did in the last push
    iters,          \* iterations of the program's loop completed (examples/bfs.rs:34, 51)
    saved           \* what save_data_to_file met and did (NotSaved before it is called)

buildVars == <<size_of_N, attempt, entry, reader, input, pos, dir_exists, dir_files,
               nodes_file, edges_file, previous_node, edges_count, max, bpc>>
viewVars == <<nodes, edges, current_node, iter_out, ipc>>
engineVars == <<old_active, new_active, old_data, new_data>>
ctlVars == <<mode, script, cpc, func, tasks, last_call, sweep, log, iters, saved>>
computeVars == <<engineVars, ctlVars>>
vars == <<buildVars, viewVars, computeVars>>

---------------------------------------------------------------------------
\* Bounds of the model
MaxId == 2          \* vertex ids of the input streams are 0..MaxId
MaxEdges == 2       \* input streams have at most MaxEdges items
MaxRecords == 1     \* readers handed to the input adapters hold at most MaxRecords
                    \* complete records
MaxAttempts == 2    \* builds made into one destination directory

\* Platform constants
SizeOfUsize == 8    \* std::mem::size_of::<usize>() on a 64-bit host
ByteBase == 256
WordBytes == SizeOfUsize \div 2    \* bytes of one 32-bit half of a usize

\* Unsigned integers of the code (u32, u64, usize) are held as integers of the
\* model: a value below 2^31 as itself, and the top 2^31 values of the type by
\* their distance below 2^bits, as negative integers.  serialize and from_bytes
\* are exact on both ranges; the values in between are beyond the model's
\* integers.
\*
\* The largest value of an unsigned type, all bits set: u32::MAX (compute.rs:269,
\* examples/bfs.rs:26), N::MAX of the id type, usize::MAX
MAX == -1

\* a < b on unsigned integers (reading.rs:66, 71, 79, 91, compute.rs:153)
lt(a, b) == IF (a < 0) = (b < 0) THEN a < b ELSE b < 0

\* a <= b on unsigned integers
le(a, b) == a = b \/ lt(a, b)

\* v + 1 on a `width`-byte unsigned integer, without overflow checks: the sum
\* wraps to 0 on MAX (reading.rs:80, 84, 88, 92, compute.rs:277)
add_one(v, width) ==
    IF width = 4 /\ v = 2147483647 THEN -2147483647 - 1 ELSE v + 1

Ids == 0..MaxId
EdgeItems == Ids \X Ids

RECURSIVE SeqsUpTo(_, _)
SeqsUpTo(S, n) ==
    IF n = 0 THEN {<<>>}
    ELSE LET shorter == SeqsUpTo(S, n - 1)
         IN  shorter \cup {Append(s, x) : s \in {t \in shorter : Len(t) = n - 1}, x \in S}

\* An item of the stream is Ok((src, dst)), the pair <<src, dst>>, or Err(e), ErrItem
ErrItem == <<-1>>
IsErr(item) == Len(item) # 2

Streams == SeqsUpTo(EdgeItems \cup {ErrItem}, MaxEdges)

\* the stream has no Err item
AllOk(stream) == \A k \in 1..Len(stream) : ~IsErr(stream[k])

IsSorted(stream) ==
    \A k \in 1..(Len(stream) - 1) : le(stream[k][1], stream[k + 1][1])

---------------------------------------------------------------------------
\* util.rs: fixed-width native-endian byte strings

RECURSIVE serialize(_, _)
\* v.to_ne_bytes() of a `width`-byte unsigned integer (util.rs:21-23, 35-37)
serialize(v, width) ==
    IF width = 0 THEN <<>>
    ELSE <<v % ByteBase>> \o serialize(v \div ByteBase, width - 1)

RECURSIVE from_bytes(_)
\* from_ne_bytes (util.rs:24-31, 38-45)
from_bytes(bytes) ==
    IF bytes = <<>> THEN 0
    ELSE IF Len(bytes) = 1
    THEN IF bytes[1] >= ByteBase \div 2 THEN bytes[1] - ByteBase ELSE bytes[1]
    ELSE bytes[1] + ByteBase * from_bytes(Tail(bytes))


---------------------------------------------------------------------------
\* reading.rs: from_adjacency_list, one action per statement group

\* reading.rs:66-68
UpdateMax(m, dst) == IF lt(m, dst) THEN dst ELSE m

\* mutant of Unsorted: the check is missing
Unsorted_unchecked(src, prev) == FALSE

\* reading.rs:71, the sortedness check
Unsorted(src, prev) == lt(src, prev)

RECURSIVE WriteWhileBelow(_, _, _, _)
\* reading.rs:79-82 and 91-94: `while previous_node < bound { previous_node =
\* previous_node + N::one(); nodes_writer.write(&edges_count.serialize()) }`
WriteWhileBelow(prev, bound, count, width) ==
    IF lt(prev, bound)
    THEN serialize(count, width) \o WriteWhileBelow(add_one(prev, width), bound, count, width)
    ELSE <<>>

\* mutant of MissingNodes: the source id is written in place of the edge count
MissingNodes_writes_source(prev, src, count, width) ==
    WriteWhileBelow(prev, src, src, width)

\* reading.rs:79-82, the offsets appended for the sources prev+1 .. src
MissingNodes(prev, src, count, width) ==
    WriteWhileBelow(prev, src, count, width)

\* N::one() added to v (reading.rs:80, 84, 88, 92) leaves the id type
AddOverflows(v) == v = MAX

\* reading.rs:88, the bound of the trailing loop; where the sum overflows and the
\* build has no overflow checks, it wraps to zero
FinalMax(m, width) == add_one(m, width)

\* reading.rs:91-94, the offsets appended after the stream has ended
TrailingNodes(prev, m, count, width) ==
    WriteWhileBelow(prev, FinalMax(m, width), count, width)

\* The builder's local state and the bytes it has written, as one record
Builder ==
    [nodes_file |-> nodes_file, edges_file |-> edges_file,
     previous_node |-> previous_node, edges_count |-> edges_count,
     max |-> max, failed |-> bpc \in {"err_unsorted", "err_stream"},
     panicked |-> bpc = "panic_overflow"]

\* reading.rs:47-58: both files created, the first offset written
BuilderStart(width) ==
    [nodes_file |-> serialize(0, width), edges_file |-> <<>>,
     previous_node |-> 0, edges_count |-> 0, max |-> 0, failed |-> FALSE,
     panicked |-> FALSE]

\* reading.rs:60-86: one iteration of the loop over the stream, on the item
\* `item`, in a build with overflow checks (`checks`) or without them.  Where
\* edges_count + N::one() overflows (line 84), the first panics, the edge and
\* the missing offsets already handed to the writers, and the second goes on
\* with the wrapped count.
EdgeStep(b, item, width, checks) ==
    LET src == item[1]
        dst == item[2]
    IN  IF IsErr(item)
        THEN [b EXCEPT !.failed = TRUE]
        ELSE IF Unsorted(src, b.previous_node)
        THEN [b EXCEPT !.max = UpdateMax(b.max, dst), !.failed = TRUE]
        ELSE [b EXCEPT
                !.max = UpdateMax(b.max, dst),
                !.edges_file = b.edges_file \o serialize(dst, width),
                !.nodes_file = b.nodes_file \o
                    MissingNodes(b.previous_node, src, b.edges_count, width),
                !.edges_count = IF checks /\ AddOverflows(b.edges_count)
                                THEN b.edges_count
                                ELSE add_one(b.edges_count, width),
                !.previous_node = src,
                !.panicked = checks /\ AddOverflows(b.edges_count)]

\* reading.rs:88-94: the trailing offsets.  Where max + N::one() overflows, a
\* build with overflow checks panics at line 88 and one without them goes on
\* with the wrapped sum.
FinishStep(b, width, checks) ==
    IF checks /\ AddOverflows(b.max)
    THEN [b EXCEPT !.panicked = TRUE]
    ELSE [b EXCEPT
            !.nodes_file = b.nodes_file \o
                TrailingNodes(b.previous_node, b.max, b.edges_count, width),
            !.previous_node = IF lt(b.previous_node, FinalMax(b.max, width))
                              THEN FinalMax(b.max, width)
                              ELSE b.previous_node,
            !.max = FinalMax(b.max, width)]

RECURSIVE ConsumeStream(_, _, _, _)
\* the loop of reading.rs:60-86 over a whole stream; it stops at the first
\* failure or panic
ConsumeStream(b, stream, width, checks) ==
    IF stream = <<>> \/ b.failed \/ b.panicked THEN b
    ELSE ConsumeStream(EdgeStep(b, Head(stream), width, checks), Tail(stream),
                       width, checks)

\* reading.rs:35-108 on a directory that does not exist yet
from_adjacency_list(stream, width, checks) ==
    LET b == ConsumeStream(BuilderStart(width), stream, width, checks)
    IN  IF b.failed \/ b.panicked THEN b ELSE FinishStep(b, width, checks)

---------------------------------------------------------------------------
\* The input adapters (lib.rs:31-73, reading.rs:111-157).  The iterators they
\* build are lazy; the reader belongs to the iterator alone, so the items the
\* builder's loop pulls are the ones computed here.

NoReader == [bytes |-> <<>>, lines |-> <<>>, broken |-> FALSE]

\* BufReader::read_exact of `width` bytes from a reader that still holds `bytes`
\* and, when `broken`, fails with an IO error once they are exhausted: Ok with
\* the bytes read, or Err (UnexpectedEof or the IO error) with the rest consumed
read_exact(bytes, width, broken) ==
    IF Len(bytes) >= width
    THEN [ok |-> TRUE, err |-> "none", buffer |-> SubSeq(bytes, 1, width),
          rest |-> SubSeq(bytes, width + 1, Len(bytes))]
    ELSE [ok |-> FALSE, err |-> IF broken THEN "Other" ELSE "UnexpectedEof",
          buffer |-> <<>>, rest |-> <<>>]

\* reading.rs:141-156: ReaderIterator::next, <<>> for None and <<item>> for Some
ReaderIterator_next(bytes, width, broken) ==
    LET r1 == read_exact(bytes, width, broken)
        r2 == read_exact(r1.rest, width, broken)
    IN  [item |-> IF r1.ok /\ r2.ok
                  THEN <<(<<from_bytes(r1.buffer), from_bytes(r2.buffer)>>)>>
                  ELSE <<>>,
         rest |-> r2.rest]

RECURSIVE reader_to_iter(_, _, _)
\* reading.rs:123-134 with lib.rs:70: the items the ReaderIterator yields until its
\* first None, each wrapped in Ok
reader_to_iter(bytes, width, broken) ==
    LET n == ReaderIterator_next(bytes, width, broken)
    IN  IF n.item = <<>> THEN <<>>
        ELSE n.item \o reader_to_iter(n.rest, width, broken)

\* A token of a text line is either the decimal text of a value of N, held as
\* that value (Number(MAX) is the text of the largest id), or Junk: text that
\* parse::<N> rejects (no digits, a sign, a value beyond the type).
Number(n) == [digits |-> TRUE, val |-> n]

Junk == [digits |-> FALSE, val |-> 0]

\* lib.rs:45, 51: parse::<N>().or(Err(InvalidData))
parse(token) == [ok |-> token.digits, val |-> token.val]

\* lib.rs:39-54: the closure mapped over reader.lines(), on the tokens
\* split_whitespace yields for one line
parse_line(tokens) ==
    IF Len(tokens) < 1 THEN ErrItem
    ELSE IF ~parse(tokens[1]).ok THEN ErrItem
    ELSE IF Len(tokens) < 2 THEN ErrItem
    ELSE IF ~parse(tokens[2]).ok THEN ErrItem
    ELSE <<parse(tokens[1]).val, parse(tokens[2]).val>>

\* lib.rs:38-55: the items of reader.lines().map(..); a read error of the
\* underlying stream is an Err line, which `line?` turns into an Err item
lines_to_iter(lines, broken) ==
    [k \in 1..Len(lines) |-> parse_line(lines[k])] \o
        (IF broken THEN <<ErrItem>> ELSE <<>>)

\* lib.rs:62-73
from_binary_adjancency ==
    /\ bpc = "adapt"
    /\ entry = "from_binary_adjancency"
    /\ input' = reader_to_iter(reader.bytes, size_of_N, reader.broken)
    /\ bpc' = "create"
    /\ UNCHANGED <<size_of_N, attempt, entry, reader, pos, dir_exists, dir_files, nodes_file,
                   edges_file, previous_node, edges_count, max, viewVars, computeVars>>

\* lib.rs:31-59
from_txt_adjacency_list ==
    /\ bpc = "adapt"
    /\ entry = "from_txt_adjacency_list"
    /\ input' = lines_to_iter(reader.lines, reader.broken)
    /\ bpc' = "create"
    /\ UNCHANGED <<size_of_N, attempt, entry, reader, pos, dir_exists, dir_files, nodes_file,
                   edges_file, previous_node, edges_count, max, viewVars, computeVars>>

---------------------------------------------------------------------------
\* reading.rs: the files of the destination directory

VERTEX_NAME == "vertex.csr"
EDGE_NAME == "edge.csr"

\* mutant of create_dir: an existing directory is accepted (fs::create_dir_all)
create_dir_all(exists) == [ok |-> TRUE, exists |-> TRUE]

\* reading.rs:44: fs::create_dir fails when the directory exists
create_dir(exists) == [ok |-> ~exists, exists |-> TRUE]

\* reading.rs:16-21, 25-30: OpenOptions read + write + create, without truncate:
\* a missing file is created empty, an existing one is opened as it is
\* mutant of open_or_create: the file is opened without the create option
open_or_create_skipped(files, name) == files

open_or_create(files, name) == files \cup {name}

\* reading.rs:44-58: create the directory and both files, write the first offset
CreateDir ==
    /\ bpc = "create"
    /\ IF ~create_dir(dir_exists).ok
       THEN /\ bpc' = "err_exists"
            /\ UNCHANGED <<dir_exists, dir_files, nodes_file, edges_file>>
       ELSE /\ dir_exists' = create_dir(dir_exists).exists
            /\ dir_files' = open_or_create(open_or_create(dir_files, VERTEX_NAME), EDGE_NAME)
            /\ nodes_file' = BuilderStart(size_of_N).nodes_file
            /\ edges_file' = BuilderStart(size_of_N).edges_file
            /\ bpc' = "loop"
    /\ UNCHANGED <<size_of_N, attempt, entry, reader, input, pos, previous_node, edges_count, max,
                   viewVars, computeVars>>

\* reading.rs:60-86: one iteration of the loop over the stream, in a build with
\* overflow checks or without them
BuildEdge ==
    /\ bpc = "loop"
    /\ pos < Len(input)
    /\ \E checks \in BOOLEAN :
         LET b == EdgeStep(Builder, input[pos + 1], size_of_N, checks)
         IN  /\ pos' = pos + 1
             /\ max' = b.max
             /\ nodes_file' = b.nodes_file
             /\ edges_file' = b.edges_file
             /\ previous_node' = b.previous_node
             /\ edges_count' = b.edges_count
             /\ bpc' = IF IsErr(input[pos + 1]) THEN "err_stream"
                       ELSE IF b.failed THEN "err_unsorted"
                       ELSE IF b.panicked THEN "panic_overflow" ELSE bpc
    /\ UNCHANGED <<size_of_N, attempt, entry, reader, input, dir_exists, dir_files,
                   viewVars, computeVars>>

\* reading.rs:88-107: the trailing offsets, the flushes and the Ok return, in a
\* build with overflow checks or without them
BuildFinish ==
    /\ bpc = "loop"
    /\ pos = Len(input)
    /\ \E checks \in BOOLEAN :
         LET b == FinishStep(Builder, size_of_N, checks)
         IN  /\ nodes_file' = b.nodes_file
             /\ previous_node' = b.previous_node
             /\ max' = b.max
             /\ bpc' = IF b.panicked THEN "panic_overflow" ELSE "ok"
    /\ UNCHANGED <<size_of_N, attempt, entry, reader, input, pos, dir_exists, dir_files,
                   edges_file, edges_count, viewVars, computeVars>>

\* the valid streams of a second build into the same destination
RetryStreams == {<<>>, <<<<0, 1>>, <<1, 0>>>>}

\* reading.rs:35-44 again: after a failed build the caller builds a valid stream
\* into the same destination_folder_name
BuildAgain ==
    /\ bpc \in {"err_unsorted", "err_stream"}
    /\ attempt < MaxAttempts
    /\ attempt' = attempt + 1
    /\ entry' = "from_adjacency_list"
    /\ reader' = NoReader
    /\ input' \in RetryStreams
    /\ pos' = 0
    /\ previous_node' = 0
    /\ edges_count' = 0
    /\ max' = 0
    /\ bpc' = "create"
    /\ UNCHANGED <<size_of_N, dir_exists, dir_files, nodes_file, edges_file,
                   viewVars, computeVars>>

---------------------------------------------------------------------------
\* lib.rs: the view

\* One platform index read from SizeOfUsize bytes, as its two 32-bit halves
DecodeUsize(bytes) ==
    [lo |-> from_bytes(SubSeq(bytes, 1, WordBytes)),
     hi |-> from_bytes(SubSeq(bytes, WordBytes + 1, SizeOfUsize))]

\* lib.rs:95-105: vertex.csr mapped as len / size_of::<usize>() platform indices
MapNodes(file) ==
    [k \in 1..(Len(file) \div SizeOfUsize) |->
        DecodeUsize(SubSeq(file, (k - 1) * SizeOfUsize + 1, k * SizeOfUsize))]

\* lib.rs:107-117: edge.csr mapped as len / size_of::<N>() vertex ids
MapEdges(file, width) ==
    [k \in 1..(Len(file) \div width) |->
        from_bytes(SubSeq(file, (k - 1) * width + 1, k * width))]

\* lib.rs:145, 168: `nodes.len() - 1` on an array without elements leaves usize
n_nodes_overflows(ns) == Len(ns) = 0

\* lib.rs:144-146: nodes.len() - 1 in usize.  Where the subtraction overflows, a
\* build with overflow checks panics and a build without them yields usize::MAX
n_nodes(ns) == IF n_nodes_overflows(ns) THEN MAX ELSE Len(ns) - 1

\* lib.rs:149-151
n_edges(es) == Len(es)

\* lib.rs:177: the range start..end lies inside a slice of length len
\* (an index with a non-zero high half exceeds every length)
SliceInRange(start, end, len) ==
    /\ start.hi = 0
    /\ end.hi = 0
    /\ le(start.lo, end.lo)
    /\ le(end.lo, len)

\* lib.rs:172-177: the out-edge slice of vertex i (0-based), when in range
OutEdges(ns, es, i) == SubSeq(es, ns[i + 1].lo + 1, ns[i + 2].lo)

\* lib.rs:95-117: what EasyMmapBuilder::build can do with a file of `len` bytes
\* and elements of `width` bytes.  The mapping of a capacity of 0 elements is
\* decided by the easy_mmap crate and the host: it yields an empty array or fails.
MapOutcomes(len, width) ==
    IF len \div width = 0 THEN {"iter", "panic"} ELSE {"iter"}

\* lib.rs:94-119: the two build() calls are independent and made one after the
\* other: load_graph returns the Graph when both calls succeed and fails when
\* either of them fails.
BuildOutcomes(nodes_outcomes, edges_outcomes) ==
    {o \in {"iter", "panic"} :
        \/ o = "iter" /\ "iter" \in nodes_outcomes /\ "iter" \in edges_outcomes
        \/ o = "panic" /\ "panic" \in nodes_outcomes \cup edges_outcomes}

\* lib.rs:91-120: load_graph, called by Graph::from_adjacency_list after a
\* successful build (lib.rs:85-87) or by the caller on a directory of its own
LoadGraph ==
    /\ bpc \in {"ok", "open"}
    /\ ipc = "idle"
    /\ IF ~dir_exists
       THEN \* get_vertex_file fails: NotFound
            /\ ipc' = "err_open"
            /\ UNCHANGED <<dir_files, nodes, edges>>
       ELSE /\ dir_files' = open_or_create(open_or_create(dir_files, VERTEX_NAME), EDGE_NAME)
            /\ ipc' \in BuildOutcomes(MapOutcomes(Len(nodes_file), SizeOfUsize),
                                       MapOutcomes(Len(edges_file), size_of_N))
            /\ nodes' = IF ipc' = "iter" THEN MapNodes(nodes_file) ELSE nodes
            /\ edges' = IF ipc' = "iter" THEN MapEdges(edges_file, size_of_N) ELSE edges
    /\ current_node' = 0
    /\ iter_out' = <<>>
    /\ UNCHANGED <<size_of_N, attempt, entry, reader, input, pos, dir_exists, nodes_file,
                   edges_file, previous_node, edges_count, max, bpc, computeVars>>

\* lib.rs:167-178: GraphIterator::next
IterNext ==
    /\ ipc = "iter"
    /\ IF n_nodes_overflows(nodes)
       THEN \* nodes.len() - 1 panics, or wraps and nodes[current_node] panics
            /\ ipc' = "panic"
            /\ UNCHANGED <<current_node, iter_out>>
       ELSE IF ~lt(current_node, n_nodes(nodes))
       THEN /\ ipc' = "done"
            /\ UNCHANGED <<current_node, iter_out>>
       ELSE IF SliceInRange(nodes[current_node + 1], nodes[current_node + 2], Len(edges))
       THEN /\ iter_out' = Append(iter_out, OutEdges(nodes, edges, current_node))
            /\ current_node' = current_node + 1
            /\ ipc' = ipc
       ELSE /\ ipc' = "panic"          \* slice index out of range
            /\ current_node' = current_node + 1
            /\ UNCHANGED iter_out
    /\ UNCHANGED <<buildVars, nodes, edges, computeVars>>

\* The destination directory before the call: absent, or present with any of
\* the two files of an earlier build of OldStream for 64-bit ids
OldStream == <<<<0, 1>>, <<1, 0>>>>
NoDirectory == [exists |-> FALSE, files |-> {}, nodes_file |-> <<>>, edges_file |-> <<>>]
Directories ==
    {NoDirectory} \cup
    {[exists |-> TRUE, files |-> fs,
      nodes_file |-> IF VERTEX_NAME \in fs
                     THEN from_adjacency_list(OldStream, SizeOfUsize, TRUE).nodes_file ELSE <<>>,
      edges_file |-> IF EDGE_NAME \in fs
                     THEN from_adjacency_list(OldStream, SizeOfUsize, TRUE).edges_file ELSE <<>>]
        : fs \in SUBSET {VERTEX_NAME, EDGE_NAME}}

\* the records of a binary reader, as the bytes of their two ids
RECURSIVE Encode(_, _)
Encode(stream, width) ==
    IF stream = <<>> THEN <<>>
    ELSE serialize(stream[1][1], width) \o serialize(stream[1][2], width)
             \o Encode(Tail(stream), width)

Records == SeqsUpTo(EdgeItems, MaxRecords)

\* what follows the complete records of a binary reader: nothing, or a record cut
\* inside its first id, after its first id, or inside its second id
BinaryTails(width) ==
    {<<>>, <<1>>, serialize(1, width), serialize(1, width) \o <<0>>}

BinaryReaders(width) ==
    {[bytes |-> Encode(rs, width) \o tail, lines |-> <<>>, broken |-> b]
        : rs \in Records, tail \in BinaryTails(width), b \in BOOLEAN}

\* what follows the complete lines of a text reader: nothing, an empty line, a
\* line with one number, a line that is not a number
TxtLine(item) == <<Number(item[1]), Number(item[2])>>

TxtLines(rs) == [k \in 1..Len(rs) |-> TxtLine(rs[k])]

TxtTails ==
    {<<>>, <<(<<>>)>>, <<(<<Number(1)>>)>>, <<(<<Junk, Number(0)>>)>>,
     <<(<<Number(0), Junk>>)>>, <<TxtLine(<<0, MAX>>)>>}

TxtReaders ==
    {[bytes |-> <<>>, lines |-> TxtLines(rs) \o tail, broken |-> b]
        : rs \in Records, tail \in TxtTails, b \in BOOLEAN}

\* streams of one edge whose destination is the largest id of the id type
TopStreams == {<<<<s, MAX>>>> : s \in Ids}

\* the calls the model starts from
Calls ==
    {[entry |-> "from_adjacency_list", reader |-> NoReader, input |-> st, dir |-> d]
        : st \in Streams, d \in Directories}
    \cup {[entry |-> "from_adjacency_list", reader |-> NoReader, input |-> st,
           dir |-> NoDirectory] : st \in TopStreams}
    \cup {[entry |-> "load_graph", reader |-> NoReader, input |-> <<>>, dir |-> d]
        : d \in Directories}
    \cup {[entry |-> "from_txt_adjacency_list", reader |-> r, input |-> <<>>,
           dir |-> NoDirectory] : r \in TxtReaders}

InitBuild ==
    /\ size_of_N \in {4, 8}
    /\ attempt = 1
    /\ \E c \in Calls \cup
                 {[entry |-> "from_binary_adjancency", reader |-> r, input |-> <<>>,
                   dir |-> NoDirectory] : r \in BinaryReaders(size_of_N)} :
          /\ entry = c.entry
          /\ reader = c.reader
          /\ input = c.input
          /\ dir_exists = c.dir.exists
          /\ dir_files = c.dir.files
          /\ nodes_file = c.dir.nodes_file
          /\ edges_file = c.dir.edges_file
    /\ bpc = CASE entry = "from_adjacency_list" -> "create"
               [] entry = "load_graph" -> "open"
               [] OTHER -> "adapt"
    /\ pos = 0
    /\ previous_node = 0
    /\ edges_count = 0
    /\ max = 0
    /\ nodes = <<>>
    /\ edges = <<>>
    /\ current_node = 0
    /\ iter_out = <<>>
    /\ ipc = "idle"
    /\ old_active = <<>>
    /\ new_active = <<>>
    /\ old_data = <<>>
    /\ new_data = <<>>
    /\ mode = [name |-> "none", src_node |-> 0, active |-> {}]
    /\ script = <<>>
    /\ cpc = "run"
    /\ func = "none"
    /\ tasks = <<>>
    /\ last_call = "none"
    /\ sweep = <<>>
    /\ log = <<>>
    /\ iters = 0
    /\ saved = <<>>

NextBuild ==
    \/ from_binary_adjancency
    \/ from_txt_adjacency_list
    \/ CreateDir
    \/ BuildEdge
    \/ BuildFinish
    \/ BuildAgain
    \/ LoadGraph
    \/ IterNext

SpecBuild == InitBuild /\ [][NextBuild]_vars

---------------------------------------------------------------------------
\* Properties of the builder and the view

RECURSIVE DestsOf(_, _)
\* the destinations of the edges of `stream` whose source is i, in stream order
DestsOf(stream, i) ==
    IF stream = <<>> THEN <<>>
    ELSE (IF stream[1][1] = i THEN <<stream[1][2]>> ELSE <<>>) \o DestsOf(Tail(stream), i)

\* how many times x occurs in the sequence s
Occurrences(s, x) == Cardinality({k \in 1..Len(s) : s[k] = x})

\* how many times the pair (src, dst) was enumerated by the iterator
Enumerated(src, dst) ==
    IF src < Len(iter_out) THEN Occurrences(iter_out[src + 1], dst) ELSE 0

SetMax(S) == CHOOSE x \in S : \A y \in S : le(y, x)

\* spec 4.1 step 6: N = max(prev_src, max_id) + 1, both scalars starting at 0
SpecN(stream) ==
    SetMax({0} \cup {stream[k][1] : k \in 1..Len(stream)}
               \cup {stream[k][2] : k \in 1..Len(stream)}) + 1

\* The build succeeded for a 64-bit id type, whose offsets the view reads back
\* with the width they were written with.
Built64 ==
    /\ entry = "from_adjacency_list"
    /\ bpc = "ok"
    /\ IsSorted(input)
    /\ size_of_N = SizeOfUsize

\* C1: building a sorted stream and enumerating the view yields, for every
\* vertex i, exactly the destinations of the input edges with source i, in input
\* order, and the multiset of enumerated pairs equals the multiset of input edges.
C1_EnumerationEqualsInput ==
    (Built64 /\ ipc \in {"done", "panic"}) =>
        /\ ipc = "done"
        /\ Len(iter_out) = n_nodes(nodes)
        /\ \A i \in 0..(Len(iter_out) - 1) : iter_out[i + 1] = DestsOf(input, i)
        /\ \A e \in EdgeItems : Enumerated(e[1], e[2]) = Occurrences(input, e)

\* C2: after a successful build vertex.csr holds exactly N+1 offsets and the
\* last one equals the number of edges written to edge.csr.
C2_SentinelIsEdgeCount ==
    Built64 =>
        LET offsets == MapNodes(nodes_file)
        IN  /\ Len(offsets) = SpecN(input) + 1
            /\ offsets[Len(offsets)] =
                   [lo |-> Len(edges_file) \div size_of_N, hi |-> 0]

\* C3: after a successful build of a non-empty sorted stream, n_vertices() is
\* 1 plus the largest id that occurs in the input as a source or a destination.
C3_VertexCountCoversEveryId ==
    (Built64 /\ input # <<>> /\ ipc \in {"iter", "done"}) =>
        n_nodes(nodes) = SpecN(input)

\* the stream has an edge whose source is smaller than the source of the edge
\* right before it, and no Err item before that edge
UnsortedAt(stream, k) ==
    /\ k >= 2
    /\ k <= Len(stream)
    /\ AllOk(SubSeq(stream, 1, k))
    /\ lt(stream[k][1], stream[k - 1][1])

\* C11: when the stream holds an edge whose source is smaller than the source
\* of the edge before it, the builder fails with the unsorted-input error as soon
\* as it has consumed that edge, the build never succeeds and no Graph is opened.
C11_UnsortedInputFails ==
    /\ UnsortedAt(input, pos) => bpc = "err_unsorted"
    /\ (\E k \in 1..Len(input) : UnsortedAt(input, k)) =>
          /\ bpc # "ok"
          /\ ipc = "idle"
          /\ nodes = <<>>
          /\ edges = <<>>

\* the builder stopped at an out-of-order edge after it had written edges
C11_Witness ==
    /\ bpc = "err_unsorted"
    /\ UnsortedAt(input, pos)
    /\ Len(edges_file) > 0
    /\ ipc = "idle"

\* C12: when the destination directory exists, the builder fails with the
\* already-exists error before it consumes any item of the stream, and neither
\* then nor later creates, truncates or writes vertex.csr or edge.csr there.
C12_ExistingDirectoryUntouched ==
    [][(dir_exists /\ bpc \in {"create", "err_exists"}) =>
          /\ bpc' = "err_exists"
          /\ pos' = 0
          /\ ipc' = "idle"
          /\ dir_files' = dir_files
          /\ nodes_file' = nodes_file
          /\ edges_file' = edges_file]_vars

\* the build failed on a directory that held an earlier CSR, with a stream to read
C12_Witness ==
    /\ bpc = "err_exists"
    /\ dir_files = {VERTEX_NAME, EDGE_NAME}
    /\ Len(nodes_file) > 0
    /\ Len(edges_file) > 0
    /\ Len(input) > 0

\* C13: building the empty stream writes the single offset 0 and no edge, and
\* the view opened on the result has 0 vertices and 0 edges and does not fail.
C13_EmptyStreamHasNoVertex ==
    (Built64 /\ input = <<>>) =>
        /\ nodes_file = serialize(0, SizeOfUsize)
        /\ edges_file = <<>>
        /\ ipc # "idle" =>
              /\ ipc \in {"iter", "done"}
              /\ n_nodes(nodes) = 0
              /\ n_edges(edges) = 0

\* the offsets of a CSR with vertices 0..n-1 for the edges of `stream`: entry i
\* is the number of edges whose source is smaller than i
OffsetsOf(stream, n) ==
    [k \in 1..(n + 1) |->
        [lo |-> Cardinality({j \in 1..Len(stream) : stream[j][1] < k - 1}), hi |-> 0]]

\* C14: for 32-bit and 64-bit ids alike, a successful build that wrote N+1
\* offsets leaves a vertex.csr of (N+1) * sizeof(usize) bytes and an edge.csr of
\* edges_written * sizeof(V) bytes, and the view reads back those N+1 offsets.
C14_OffsetsArePlatformSized ==
    (entry = "from_adjacency_list" /\ bpc = "ok" /\ IsSorted(input)) =>
        /\ Len(nodes_file) = (previous_node + 1) * SizeOfUsize
        /\ Len(edges_file) = edges_count * size_of_N
        /\ MapNodes(nodes_file) = OffsetsOf(input, previous_node)

\* the transition is a call of load_graph
IsLoadGraph == ipc = "idle" /\ ipc' # "idle"

\* C15: load_graph writes nothing: the directory, the set of files in it and
\* their contents are the same after the call as before, also when vertex.csr
\* or edge.csr is missing.
C15_LoadGraphWritesNothing ==
    [][IsLoadGraph =>
          /\ dir_exists' = dir_exists
          /\ dir_files' = dir_files
          /\ nodes_file' = nodes_file
          /\ edges_file' = edges_file]_vars

\* the reader handed to an input adapter fails, or ends inside a record
ReaderFails ==
    \/ /\ entry = "from_binary_adjancency"
       /\ reader.broken \/ Len(reader.bytes) % (2 * size_of_N) # 0
    \/ /\ entry = "from_txt_adjacency_list"
       /\ \/ reader.broken
          \/ Len(reader.lines) > 0 /\ Len(reader.lines[Len(reader.lines)]) = 1

\* C17: when the reader of an input adapter fails or ends inside a record, the
\* adapter returns an error: the build does not succeed and no Graph is opened.
C17_AdapterErrorsPropagate ==
    ReaderFails => (bpc # "ok" /\ ipc = "idle")

\* the offsets in vertex.csr, read with the width the builder writes them with
WrittenOffsets == MapEdges(nodes_file, size_of_N)

\* C21: at every point of the builder's pass over a sorted stream, the offsets
\* written so far start with 0, are non-decreasing, and none exceeds the number
\* of destinations edge.csr holds at the end of the build; in the finished file
\* every offset is at most the one after it.
C21_OffsetsAreMonotone ==
    (bpc \in {"loop", "ok"} /\ AllOk(input) /\ IsSorted(input)) =>
        /\ Len(WrittenOffsets) >= 1
        /\ WrittenOffsets[1] = 0
        /\ \A i \in 1..(Len(WrittenOffsets) - 1) :
              le(WrittenOffsets[i], WrittenOffsets[i + 1])
        /\ \A i \in 1..Len(WrittenOffsets) : le(WrittenOffsets[i], Len(input))
        /\ bpc = "ok" =>
              /\ Len(edges_file) = Len(input) * size_of_N
              /\ Len(nodes_file) = Len(WrittenOffsets) * size_of_N

\* a finished build of two edges with different sources, whose offsets rise
\* twice
C21_Witness ==
    /\ bpc = "ok"
    /\ AllOk(input)
    /\ IsSorted(input)
    /\ Len(input) = 2
    /\ input[1][1] < input[2][1]
    /\ \E i \in 1..Len(WrittenOffsets) : WrittenOffsets[i] = 1
    /\ WrittenOffsets[Len(WrittenOffsets)] = 2

\* C26: a failed build is not cleaned up: after a failure on an unsorted edge or
\* a stream error the directory and the partially written files still exist, and
\* a second build into the same directory fails with the already-exists error
\* although its input is valid.
C26_FailedBuildIsLeftBehind ==
    /\ bpc \in {"err_unsorted", "err_stream"} =>
          /\ dir_exists
          /\ dir_files = {VERTEX_NAME, EDGE_NAME}
          /\ Len(nodes_file) >= size_of_N
    /\ attempt > 1 =>
          /\ AllOk(input) /\ IsSorted(input)
          /\ bpc \in {"create", "err_exists"}
          /\ pos = 0
          /\ dir_exists
          /\ dir_files = {VERTEX_NAME, EDGE_NAME}
          /\ Len(nodes_file) >= size_of_N

\* the second build of a valid, non-empty stream failed on the directory that a
\* failed build had left behind with an edge in edge.csr
C26_Witness ==
    /\ attempt = 2
    /\ bpc = "err_exists"
    /\ Len(input) > 0
    /\ Len(edges_file) > 0

\* C27: each offset appended to vertex.csr is the exact number of edges written
\* before it, and the final max id + 1 does not overflow the id type: the build
\* of a sorted stream returns, and with a bound above every id of the stream.
C27_CountersDoNotOverflow ==
    (bpc \in {"ok", "panic_overflow"}) =>
        /\ bpc = "ok"
        /\ \A k \in 1..Len(input) : lt(input[k][2], max)
        /\ \A i \in 1..Len(WrittenOffsets) :
              WrittenOffsets[i] =
                  Cardinality({j \in 1..Len(input) : input[j][1] < i - 1})

\* C28: for every successful build, every destination id in edge.csr is smaller
\* than n_nodes() of the opened view, and every slice
\* edges[nodes[i]..nodes[i+1]] the iterator takes lies within the edge array.
C28_BuiltCsrIsIndexSafe ==
    (entry # "load_graph" /\ bpc = "ok" /\ ipc \in {"iter", "done"}) =>
        /\ ~n_nodes_overflows(nodes)
        /\ \A k \in 1..Len(edges) : lt(edges[k], n_nodes(nodes))
        /\ \A i \in 0..(n_nodes(nodes) - 1) :
              SliceInRange(nodes[i + 1], nodes[i + 2], Len(edges))

---------------------------------------------------------------------------
\* compute.rs: the compute engine

GraphMaxId == 2     \* vertex ids of the graphs the engine runs on are 0..GraphMaxId
GraphMaxEdges == 2  \* these graphs are built from at most GraphMaxEdges edges
MaxData == 1        \* setters of the free controller write 0..MaxData or MAX

\* compute.rs:28-39: the indices 0..n_nodes of the engine's buffers.  On a view
\* without offsets ComputeGraph::new panics in n_nodes() or is asked for
\* usize::MAX cells: there is no engine and no vertex
Vertices == IF n_nodes_overflows(nodes) THEN {} ELSE 0..(n_nodes(nodes) - 1)

\* lib.rs:172-177 on the engine's view
out_edges(i) == OutEdges(nodes, edges, i)

\* the items of graph.par_iter(): every vertex paired with its out-edge slice
par_iter == {<<i, out_edges(i)>> : i \in Vertices}

\* the edge occurrences of the view: <<i, k>> is the k-th out-edge of vertex i
EdgeOccs == UNION {{<<item[1], k>> : k \in 1..Len(item[2])} : item \in par_iter}

\* compute.rs:56-68: fill_active / fill_data on one buffer
fill(buffer, value) == [i \in DOMAIN buffer |-> value]

\* compute.rs:44-52: set_active / set_data on one buffer
store(buffer, idx, value) == [buffer EXCEPT ![idx] = value]

\* compute.rs:92-97
n_active == Cardinality({i \in DOMAIN old_active : old_active[i]})

Engine ==
    [old_active |-> old_active, new_active |-> new_active,
     old_data |-> old_data, new_data |-> new_data]

\* mutant of swap: the data buffers are not swapped
swap_active_only(e) ==
    [old_active |-> e.new_active, new_active |-> e.old_active,
     old_data |-> e.old_data, new_data |-> e.new_data]

\* compute.rs:75-76
swap(e) ==
    [old_active |-> e.new_active, new_active |-> e.old_active,
     old_data |-> e.new_data, new_data |-> e.old_data]

\* mutant of reset_new: new_active is not reset
reset_new_skipped(e) == e

\* compute.rs:79
reset_new(e) == [e EXCEPT !.new_active = fill(e.new_active, FALSE)]

\* compute.rs:82-87
copy_old_to_new(e) ==
    [e EXCEPT !.new_data = [i \in DOMAIN e.new_data |-> e.old_data[i]]]

\* compute.rs:73-88: step
step_result(e) == copy_old_to_new(reset_new(swap(e)))

\* std::mem::size_of::<DataType>() of the u32 data of the tests and examples
SizeOfData == 4

\* u32 `v + 1` with overflow checks off, and fetch_add(1): wrapping
wrapping_add1(v) == add_one(v, SizeOfData)

\* The relaxation closures of the tests and examples:
\*   "min_id"    |local, res| atomic_min(local, res, |v| v)       compute.rs:348
\*   "min_plus1" |local, res| atomic_min(local, res, |v| v + 1)   compute.rs:277
\*   "add1"      |_, new_res| { new_res.fetch_add(1); true }      compute.rs:213-216
Funcs == {"min_id", "min_plus1", "add1"}
IsAtomicMin(f) == f \in {"min_id", "min_plus1"}

\* mutant of value: the BFS closure forgets the increment
value_without_increment(f, v) == v

\* the closure `value` handed to atomic_min
value(f, v) == IF f = "min_plus1" THEN wrapping_add1(v) ELSE v

\* `v + 1` overflows: a panic when overflow checks are on, a wrap when they are off
Overflows(f, v) == f = "min_plus1" /\ v = MAX

---------------------------------------------------------------------------
\* The controller's calls

Call(op, idx, status, data, f) ==
    [op |-> op, idx |-> idx, status |-> status, data |-> data, func |-> f]

CallSetActive(idx, status) == Call("set_active", idx, status, 0, "none")
CallSetData(idx, data) == Call("set_data", idx, FALSE, data, "none")
CallFillActive(status) == Call("fill_active", 0, status, 0, "none")
CallFillData(data) == Call("fill_data", 0, FALSE, data, "none")
CallStep == Call("step", 0, FALSE, 0, "none")
CallPush(f) == Call("push", 0, FALSE, 0, f)

\* mutant of BfsPrelude: the source keeps the filled datum
BfsPrelude_without_source_data(src_node) ==
    <<CallFillActive(FALSE), CallFillData(MAX), CallSetActive(src_node, TRUE), CallStep>>

\* compute.rs:268-274, examples/bfs.rs:25-32
BfsPrelude(src_node) ==
    <<CallFillActive(FALSE), CallFillData(MAX),
      CallSetActive(src_node, TRUE), CallSetData(src_node, 0), CallStep>>

\* compute.rs:341-345, examples/wcc.rs:26-30
WccPrelude(n) ==
    <<CallFillActive(TRUE)>> \o [k \in 1..n |-> CallSetData(k - 1, k - 1)] \o <<CallStep>>

\* compute.rs:237-248 with the set `active` in place of the even ids
CountPrelude(active, n) ==
    [k \in 1..n |-> CallSetActive(k - 1, (k - 1) \in active)] \o
    <<CallFillData(0), CallStep, CallPush("add1"), CallStep>>

\* the relaxation of `while compute.n_active() > 0 { push(..); step(); }`
LoopFunc == IF mode.name = "bfs" THEN "min_plus1" ELSE IF mode.name = "wcc" THEN "min_id" ELSE "none"

\* the calls the program makes next: the rest of the prelude, then the loop body
\* while n_active() > 0
Pending ==
    IF script # <<>> THEN script
    ELSE IF LoopFunc # "none" /\ n_active > 0 THEN <<CallPush(LoopFunc), CallStep>>
    ELSE <<>>

\* values the free controller hands to set_data and fill_data
DataVals == (0..MaxData) \cup {MAX}

\* how many edges from active sources end in d
InDegActive(d) ==
    Cardinality({occ \in EdgeOccs : old_active[occ[1]] /\ out_edges(occ[1])[occ[2]] = d})

\* Guard of the free controller only: the push leaves every datum in DataVals
StaysBounded(f) ==
    CASE f = "min_id" -> TRUE
      [] f = "min_plus1" ->
            \A i \in Vertices : old_active[i] => (old_data[i] = MAX \/ lt(old_data[i], MaxData))
      [] f = "add1" ->
            \A d \in Vertices :
                IF new_data[d] = MAX THEN InDegActive(d) <= MaxData + 1
                ELSE new_data[d] + InDegActive(d) <= MaxData

\* The controller may make the call c now
Allowed(c) ==
    /\ cpc = "run"
    /\ IF mode.name = "api" THEN TRUE
       ELSE Pending # <<>> /\ c = Head(Pending)

\* the rest of the program after the call
Rest == IF mode.name = "api" THEN script ELSE Tail(Pending)

NoSweep == [kept |-> FALSE, stepped |-> FALSE, engine |-> <<>>]
NoCall == [times |-> 0, arg |-> 0, dst |-> 0, returned |-> FALSE, ret |-> FALSE,
           installed |-> FALSE, replaced |-> 0, seen |-> 0]
NoLog == [occ \in EdgeOccs |-> NoCall]

\* compute.rs:44-46
set_active(idx, status) ==
    /\ Allowed(CallSetActive(idx, status))
    /\ new_active' = store(new_active, idx, status)
    /\ script' = Rest
    /\ last_call' = "set_active"
    /\ sweep' = NoSweep
    /\ log' = NoLog
    /\ UNCHANGED <<buildVars, viewVars, iters, saved, old_active, old_data, new_data,
                   mode, cpc, func, tasks>>

\* mutant of set_data_result: the datum is stored in the current buffer
set_data_on_current(e, idx, data) == [e EXCEPT !.old_data = store(e.old_data, idx, data)]

\* compute.rs:51: the buffer set_data stores into
set_data_result(e, idx, data) == [e EXCEPT !.new_data = store(e.new_data, idx, data)]

\* compute.rs:50-52
set_data(idx, data) ==
    /\ Allowed(CallSetData(idx, data))
    /\ new_data' = set_data_result(Engine, idx, data).new_data
    /\ old_data' = set_data_result(Engine, idx, data).old_data
    /\ script' = Rest
    /\ last_call' = "set_data"
    /\ sweep' = NoSweep
    /\ log' = NoLog
    /\ UNCHANGED <<buildVars, viewVars, iters, saved, old_active, new_active,
                   mode, cpc, func, tasks>>

\* compute.rs:56-60
fill_active(status) ==
    /\ Allowed(CallFillActive(status))
    /\ new_active' = fill(new_active, status)
    /\ script' = Rest
    /\ last_call' = "fill_active"
    /\ sweep' = NoSweep
    /\ log' = NoLog
    /\ UNCHANGED <<buildVars, viewVars, iters, saved, old_active, old_data, new_data,
                   mode, cpc, func, tasks>>

\* compute.rs:64-68
fill_data(data) ==
    /\ Allowed(CallFillData(data))
    /\ new_data' = fill(new_data, data)
    /\ script' = Rest
    /\ last_call' = "fill_data"
    /\ sweep' = NoSweep
    /\ log' = NoLog
    /\ UNCHANGED <<buildVars, viewVars, iters, saved, old_active, old_data, new_active,
                   mode, cpc, func, tasks>>

\* the call is the step that ends an iteration of the program's loop
\* `while compute.n_active() > 0 { push(..); step(); i += 1 }`
InLoop == LoopFunc # "none" /\ last_call = "push"

\* compute.rs:73-88
step ==
    /\ Allowed(CallStep)
    /\ LET e == step_result(Engine)
       IN  /\ old_active' = e.old_active
           /\ new_active' = e.new_active
           /\ old_data' = e.old_data
           /\ new_data' = e.new_data
    /\ script' = Rest
    /\ last_call' = "step"
    /\ sweep' = IF last_call = "push" /\ sweep.kept
                THEN [sweep EXCEPT !.stepped = TRUE] ELSE NoSweep
    /\ log' = IF last_call = "push" THEN log ELSE NoLog
    /\ iters' = IF InLoop THEN iters + 1 ELSE iters
    /\ UNCHANGED <<buildVars, viewVars, saved, mode, cpc, func, tasks>>

\* capacity of the buffer of std::io::BufWriter::new
BufCapacity == 8192

\* What the file system does to the output file during the call: nothing goes
\* wrong, the file cannot be created, or the writes to the file fail
NoFailure == [kind |-> "none", limit |-> 0]

\* the sizes the output file can be limited to: no byte, one value and a byte
FileLimits == {0, SizeOfData + 1}

IoFailures ==
    {NoFailure, [kind |-> "create", limit |-> 0]}
        \cup {[kind |-> "limit", limit |-> k] : k \in FileLimits}

NotSaved == [called |-> FALSE, failure |-> NoFailure, ret |-> "none", exists |-> FALSE,
             bytes |-> <<>>]

\* BufWriter::flush_buf on the writer of compute.rs:130: the buffer is written to
\* the file; the bytes the file takes leave the buffer, and when it does not
\* take them all the write's error is returned
flush_buf(w, failure) ==
    LET room == IF failure.kind = "limit" THEN failure.limit - Len(w.file)
                ELSE Len(w.buf)
        taken == IF room >= Len(w.buf) THEN Len(w.buf)
                 ELSE IF room < 0 THEN 0 ELSE room
    IN  [buf |-> SubSeq(w.buf, taken + 1, Len(w.buf)),
         file |-> w.file \o SubSeq(w.buf, 1, taken),
         err |-> taken < Len(w.buf)]

\* util.rs:53-57 on a BufWriter: the bytes are buffered; when they do not fit,
\* the buffer is first written to the file, and the write's error is returned
write_self(w, datum, failure) ==
    LET bytes == serialize(datum, SizeOfData)
        flushed == flush_buf(w, failure)
    IN  IF w.err THEN w
        ELSE IF Len(w.buf) + Len(bytes) > BufCapacity
        THEN IF flushed.err THEN flushed
             ELSE [flushed EXCEPT !.buf = @ \o bytes]
        ELSE [w EXCEPT !.buf = @ \o bytes]

RECURSIVE write_from(_, _, _, _)
\* compute.rs:131-134: the loop over old_data from vertex i on; `?` returns at
\* the first error
write_from(w, data, i, failure) ==
    IF i \notin DOMAIN data \/ w.err THEN w
    ELSE write_from(write_self(w, data[i], failure), data, i + 1, failure)

\* compute.rs:129-137: the value returned and the bytes in the file afterwards.
\* File::create(..).unwrap() panics when the file cannot be created; the
\* BufWriter is dropped at the end of the function, and its drop writes the
\* buffer to the file and discards the error of that write
save_result(data, failure) ==
    LET w == write_from([buf |-> <<>>, file |-> <<>>, err |-> FALSE], data, 0, failure)
        dropped == flush_buf(w, failure)
    IN  IF failure.kind = "create"
        THEN [called |-> TRUE, failure |-> failure, ret |-> "panic", exists |-> FALSE,
              bytes |-> <<>>]
        ELSE [called |-> TRUE, failure |-> failure,
              ret |-> IF w.err THEN "err" ELSE "ok",
              exists |-> TRUE,
              bytes |-> dropped.file]

\* mutant of data_to_save: the pending buffer is written
data_to_save_pending(e) == e.new_data

\* compute.rs:131: the buffer the loop iterates over
data_to_save(e) == e.old_data

\* compute.rs:129-137: the program's last call (compute.rs:374,
\* examples/bfs.rs:70, examples/wcc.rs:66)
save_data_to_file(failure) ==
    /\ cpc = "run"
    /\ Pending = <<>>
    /\ saved' = save_result(data_to_save(Engine), failure)
    /\ cpc' = IF saved'.ret = "panic" THEN "panicked" ELSE "saved"
    /\ last_call' = "save_data_to_file"
    /\ UNCHANGED <<buildVars, viewVars, engineVars, iters, mode, script, func, tasks,
                   sweep, log>>

---------------------------------------------------------------------------
\* compute.rs:101-122: push.  One worker item per vertex of graph.par_iter();
\* the items run concurrently and interleave at every access to an atomic.

DoneTask == [pc |-> "done", k |-> 0, dst_val |-> 0, status |-> FALSE]
CallTask(k) == [pc |-> "call", k |-> k, dst_val |-> 0, status |-> FALSE]

\* mutant of TaskStart: the filter on old_active is negated
TaskStart_inverted(i) ==
    IF ~old_active[i] /\ Len(out_edges(i)) > 0 THEN CallTask(1) ELSE DoneTask

\* mutant of TaskStart: the filter on old_active is missing
TaskStart_unfiltered(i) ==
    IF Len(out_edges(i)) > 0 THEN CallTask(1) ELSE DoneTask

\* compute.rs:108-111: the filter on old_active, then the loop over the slice
TaskStart(i) ==
    IF old_active[i] /\ Len(out_edges(i)) > 0 THEN CallTask(1) ELSE DoneTask

\* compute.rs:111: the next edge of the slice, or the end of the item
next_edge(i, t) ==
    IF t.k < Len(out_edges(i)) THEN CallTask(t.k + 1) ELSE DoneTask

\* mutant of after_return: the destination is never marked active
after_return_never_marks(i, t, status) == next_edge(i, t)

\* mutant of after_return: the destination is marked whatever the relaxation returned
after_return_always_marks(i, t, status) ==
    [pc |-> "mark", k |-> t.k, dst_val |-> 0, status |-> FALSE]

\* mutant of after_return: the destination is marked when the relaxation
\* returned false
after_return_inverted(i, t, status) ==
    IF ~status THEN [pc |-> "mark", k |-> t.k, dst_val |-> 0, status |-> FALSE]
    ELSE next_edge(i, t)

\* compute.rs:113-119: what the item does with the relaxation's return value
after_return(i, t, status) ==
    IF status THEN [pc |-> "mark", k |-> t.k, dst_val |-> 0, status |-> FALSE]
    ELSE next_edge(i, t)

\* mutant of LoopCond: the comparison is the wrong way round
LoopCond_reversed(f, src_val, dst_val, status) ==
    lt(dst_val, value(f, src_val)) /\ ~status

\* mutant of LoopCond: an equal value is exchanged too
LoopCond_or_equal(f, src_val, dst_val, status) ==
    le(value(f, src_val), dst_val) /\ ~status

\* compute.rs:153: the condition of atomic_min's loop
LoopCond(f, src_val, dst_val, status) == lt(value(f, src_val), dst_val) /\ ~status

\* mutant of compare_exchange: a plain store, whatever the cell holds
blind_exchange(cell, current, new) == [ok |-> TRUE, cell |-> new, val |-> cell]

\* mutant of compare_exchange: the exchange fails whatever the cell holds
failing_exchange(cell, current, new) == [ok |-> FALSE, cell |-> cell, val |-> cell]

\* compute.rs:154-159: Atomic::compare_exchange on a cell holding `cell`
compare_exchange(cell, current, new) ==
    IF cell = current THEN [ok |-> TRUE, cell |-> new, val |-> cell]
    ELSE [ok |-> FALSE, cell |-> cell, val |-> cell]

\* destination of the edge the item of vertex i is at
Dst(i) == out_edges(i)[tasks[i].k]

push(f) ==
    /\ Allowed(CallPush(f))
    /\ mode.name = "api" => StaysBounded(f)
    /\ cpc' = "pushing"
    /\ func' = f
    /\ tasks' = [i \in Vertices |-> TaskStart(i)]
    /\ script' = Rest
    /\ sweep' = [kept |-> TRUE, stepped |-> FALSE, engine |-> Engine]
    /\ log' = NoLog
    /\ UNCHANGED <<buildVars, viewVars, iters, saved, engineVars, mode, last_call>>

\* compute.rs:113-116 with compute.rs:145-153: the relaxation is called on
\* (old_data[idx], &new_data[edge]); atomic_min loads dst and tests its loop
\* condition for the first time
atomic_min_load(i) ==
    /\ cpc = "pushing"
    /\ IsAtomicMin(func)
    /\ tasks[i].pc = "call"
    /\ LET t == tasks[i]
           occ == <<i, t.k>>
           src_val == old_data[i]
           dst_val == new_data[Dst(i)]
           entered == [log[occ] EXCEPT !.times = @ + 1, !.arg = src_val, !.dst = Dst(i)]
       IN  IF LoopCond(func, src_val, dst_val, FALSE)
           THEN /\ tasks' = [tasks EXCEPT ![i] = [t EXCEPT !.pc = "cas", !.dst_val = dst_val]]
                /\ log' = [log EXCEPT ![occ] = entered]
           ELSE /\ tasks' = [tasks EXCEPT ![i] = after_return(i, t, FALSE)]
                /\ log' = [log EXCEPT ![occ] =
                             [entered EXCEPT !.returned = TRUE, !.ret = FALSE,
                                             !.seen = dst_val]]
    /\ UNCHANGED <<buildVars, viewVars, iters, saved, engineVars, mode, script, cpc, func,
                   last_call, sweep>>

\* compute.rs:154-166: one compare_exchange of atomic_min's loop, then the loop
\* condition again, and the return of `status` when it no longer holds
atomic_min_cas(i) ==
    /\ cpc = "pushing"
    /\ tasks[i].pc = "cas"
    /\ LET t == tasks[i]
           occ == <<i, t.k>>
           src_val == old_data[i]
           res == compare_exchange(new_data[Dst(i)], t.dst_val, value(func, src_val))
           status == res.ok
           dst_val == IF res.ok THEN t.dst_val ELSE res.val
           tried == IF res.ok THEN [log[occ] EXCEPT !.installed = TRUE,
                                                    !.replaced = t.dst_val]
                    ELSE log[occ]
       IN  /\ new_data' = store(new_data, Dst(i), res.cell)
           /\ IF LoopCond(func, src_val, dst_val, status)
              THEN /\ tasks' = [tasks EXCEPT ![i] = [t EXCEPT !.dst_val = dst_val]]
                   /\ log' = [log EXCEPT ![occ] = tried]
              ELSE /\ tasks' = [tasks EXCEPT ![i] = after_return(i, t, status)]
                   /\ log' = [log EXCEPT ![occ] =
                                [tried EXCEPT !.returned = TRUE, !.ret = status,
                                              !.seen = dst_val]]
    /\ UNCHANGED <<buildVars, viewVars, iters, saved, old_active, new_active, old_data,
                   mode, script, cpc, func, last_call, sweep>>

\* compute.rs:113-116 with compute.rs:213-216: the relaxation
\* `new_res.fetch_add(1); true`
fetch_add_call(i) ==
    /\ cpc = "pushing"
    /\ func = "add1"
    /\ tasks[i].pc = "call"
    /\ LET t == tasks[i]
           occ == <<i, t.k>>
       IN  /\ new_data' = store(new_data, Dst(i), wrapping_add1(new_data[Dst(i)]))
           /\ tasks' = [tasks EXCEPT ![i] = after_return(i, t, TRUE)]
           /\ log' = [log EXCEPT ![occ] =
                        [@ EXCEPT !.times = @ + 1, !.arg = old_data[i], !.dst = Dst(i),
                                  !.returned = TRUE, !.ret = TRUE]]
    /\ UNCHANGED <<buildVars, viewVars, iters, saved, old_active, new_active, old_data,
                   mode, script, cpc, func, last_call, sweep>>

\* compute.rs:118: the destination is marked active in the next iteration
mark_active(i) ==
    /\ cpc = "pushing"
    /\ tasks[i].pc = "mark"
    /\ new_active' = store(new_active, Dst(i), TRUE)
    /\ tasks' = [tasks EXCEPT ![i] = next_edge(i, tasks[i])]
    /\ UNCHANGED <<buildVars, viewVars, iters, saved, old_active, old_data, new_data,
                   mode, script, cpc, func, last_call, sweep, log>>

\* compute.rs:277 with overflow checks on: `v + 1` panics on u32::MAX and the
\* panic unwinds out of push
relax_overflow_panic(i) ==
    /\ cpc = "pushing"
    /\ tasks[i].pc = "call"
    /\ Overflows(func, old_data[i])
    /\ cpc' = "panicked"
    /\ UNCHANGED <<buildVars, viewVars, iters, saved, engineVars, mode, script, func, tasks,
                   last_call, sweep, log>>

\* compute.rs:109-121: for_each returns when every item has finished
push_join ==
    /\ cpc = "pushing"
    /\ \A i \in Vertices : tasks[i].pc = "done"
    /\ cpc' = "run"
    /\ last_call' = "push"
    /\ UNCHANGED <<buildVars, viewVars, iters, saved, engineVars, mode, script, func, tasks,
                   sweep, log>>

---------------------------------------------------------------------------
\* The engine on the views of the graphs built from sorted streams

GraphIds == 0..GraphMaxId
GraphStreams == {st \in SeqsUpTo(GraphIds \X GraphIds, GraphMaxEdges) : IsSorted(st)}

\* the graphs the free controller runs on
ApiStreams == {<<<<0, 1>>, <<1, 1>>>>}
ApiGraph ==
    \E stream \in ApiStreams :
        /\ nodes_file = from_adjacency_list(stream, SizeOfUsize, TRUE).nodes_file
        /\ edges_file = from_adjacency_list(stream, SizeOfUsize, TRUE).edges_file

Program(name, src_node, active) ==
    [name |-> name, src_node |-> src_node, active |-> active]

\* the programs that can drive the engine on the view
Programs ==
    {Program("bfs", src_node, {}) : src_node \in Vertices}
        \cup {Program("wcc", 0, {})}
        \cup {Program("count", 0, active) : active \in SUBSET Vertices}
        \cup (IF ApiGraph THEN {Program("api", 0, {})} ELSE {})

Prelude(m) ==
    CASE m.name = "bfs" -> BfsPrelude(m.src_node)
      [] m.name = "wcc" -> WccPrelude(n_nodes(nodes))
      [] m.name = "count" -> CountPrelude(m.active, n_nodes(nodes))
      [] m.name = "api" -> <<>>

\* compute.rs:27-40: ComputeGraph::new on the view that Graph::<u64>::
\* from_adjacency_list returns for `stream`, and the program that drives it
InitCompute ==
    /\ size_of_N = SizeOfUsize
    /\ attempt = 1
    /\ entry = "from_adjacency_list"
    /\ reader = NoReader
    /\ input = <<>>
    /\ pos = 0
    /\ dir_exists = TRUE
    /\ dir_files = {VERTEX_NAME, EDGE_NAME}
    /\ previous_node = 0
    /\ edges_count = 0
    /\ max = 0
    /\ bpc = "ok"
    /\ \E stream \in GraphStreams :
          /\ nodes_file = from_adjacency_list(stream, SizeOfUsize, TRUE).nodes_file
          /\ edges_file = from_adjacency_list(stream, SizeOfUsize, TRUE).edges_file
    /\ nodes = MapNodes(nodes_file)
    /\ edges = MapEdges(edges_file, size_of_N)
    /\ current_node = 0
    /\ iter_out = <<>>
    /\ ipc = "idle"
    /\ old_active = [i \in Vertices |-> FALSE]
    /\ new_active = [i \in Vertices |-> FALSE]
    /\ old_data = [i \in Vertices |-> 0]
    /\ new_data = [i \in Vertices |-> 0]
    /\ mode \in Programs
    /\ script = Prelude(mode)
    /\ cpc = "run"
    /\ func = "none"
    /\ tasks = [i \in Vertices |-> DoneTask]
    /\ last_call = "new"
    /\ sweep = NoSweep
    /\ log = NoLog
    /\ iters = 0
    /\ saved = NotSaved

NextCompute ==
    \/ \E idx \in Vertices, status \in BOOLEAN : set_active(idx, status)
    \/ \E idx \in Vertices, data \in DataVals \cup Vertices : set_data(idx, data)
    \/ \E status \in BOOLEAN : fill_active(status)
    \/ \E data \in DataVals : fill_data(data)
    \/ step
    \/ \E f \in Funcs : push(f)
    \/ \E i \in Vertices : atomic_min_load(i)
    \/ \E i \in Vertices : atomic_min_cas(i)
    \/ \E i \in Vertices : fetch_add_call(i)
    \/ \E i \in Vertices : mark_active(i)
    \/ \E i \in Vertices : relax_overflow_panic(i)
    \/ push_join
    \/ \E failure \in IoFailures : save_data_to_file(failure)

SpecCompute == InitCompute /\ [][NextCompute]_vars

---------------------------------------------------------------------------
\* Properties of the compute engine

\* the destinations of the out-edges of the vertices in S
Successors(S) == {out_edges(occ[1])[occ[2]] : occ \in {o \in EdgeOccs : o[1] \in S}}

RECURSIVE ReachWithin(_, _)
\* the vertices reachable from s along at most k edges
ReachWithin(s, k) ==
    IF k = 0 THEN {s}
    ELSE LET R == ReachWithin(s, k - 1) IN R \cup Successors(R)

Reachable(s) == ReachWithin(s, Cardinality(Vertices))

SetMin(S) == CHOOSE x \in S : \A y \in S : le(x, y)

\* length in edges of a shortest directed path from s to v, MAX when there is none
Dist(s, v) ==
    IF v \notin Reachable(s) THEN MAX
    ELSE SetMin({k \in 0..Cardinality(Vertices) : v \in ReachWithin(s, k)})

\* the program's loop `while n_active() > 0` has ended
Converged == mode.name \in {"bfs", "wcc"} /\ cpc = "run" /\ Pending = <<>>

\* C4: the BFS program from source s ends with data[v] the length of a shortest
\* directed path from s to v, and MAX for every vertex s does not reach.
C4_BfsShortestPaths ==
    (mode.name = "bfs" /\ Converged) =>
        \A v \in Vertices : old_data[v] = Dist(mode.src_node, v)

C4_Witness ==
    /\ mode.name = "bfs" /\ Converged
    /\ \E v \in Vertices : old_data[v] = Cardinality(Vertices) - 1 /\ old_data[v] > 1

\* C5: the WCC program ends with every vertex v holding the minimum over v and
\* every vertex from which v is reachable along out-edges.
C5_WccMinAncestor ==
    (mode.name = "wcc" /\ Converged) =>
        \A v \in Vertices : old_data[v] = SetMin({u \in Vertices : v \in Reachable(u)})

C5_Witness ==
    /\ mode.name = "wcc" /\ Converged
    /\ \E v \in Vertices :
          /\ lt(old_data[v], v)
          /\ \A occ \in EdgeOccs :
                out_edges(occ[1])[occ[2]] = v => lt(old_data[v], occ[1])

\* One relaxation of a serial sweep on the edge occurrence occ
SerialRelax(e, f, occ) ==
    LET d == out_edges(occ[1])[occ[2]]
        src_val == e.old_data[occ[1]]
    IN  IF f = "add1"
        THEN [e EXCEPT !.new_data[d] = wrapping_add1(@), !.new_active[d] = TRUE]
        ELSE IF lt(value(f, src_val), e.new_data[d])
        THEN [e EXCEPT !.new_data[d] = value(f, src_val), !.new_active[d] = TRUE]
        ELSE e

RECURSIVE SerialFrom(_, _, _, _)
\* a serial sweep from the k-th out-edge of vertex i on, in vertex and edge order
SerialFrom(e, f, i, k) ==
    IF i >= n_nodes(nodes) THEN e
    ELSE IF ~e.old_active[i] \/ k > Len(out_edges(i)) THEN SerialFrom(e, f, i + 1, 1)
    ELSE SerialFrom(SerialRelax(e, f, <<i, k>>), f, i, k + 1)

SerialPush(e, f) == SerialFrom(e, f, 0, 1)

\* C6: with the atomic_min relaxation the old_data a step installs after a push
\* is the one a serial sweep produces, whatever the interleaving of the workers.
C6_PushDeterministic ==
    (sweep.kept /\ sweep.stepped /\ IsAtomicMin(func) /\ cpc = "run" /\ last_call = "step") =>
        old_data = SerialPush(sweep.engine, func).new_data

\* two relaxations from different sources both installed a value in the same cell
C6_Witness ==
    /\ sweep.kept /\ sweep.stepped /\ IsAtomicMin(func) /\ last_call = "step"
    /\ \E o1, o2 \in EdgeOccs :
          /\ o1[1] # o2[1]
          /\ log[o1].installed /\ log[o2].installed
          /\ log[o1].dst = log[o2].dst

\* the push has returned and no other call has been made since
Pushed == sweep.kept /\ ~sweep.stepped /\ cpc = "run" /\ last_call = "push"

\* number of edges into d whose source is in `active`
InDegFrom(active, d) ==
    Cardinality({occ \in EdgeOccs : occ[1] \in active /\ out_edges(occ[1])[occ[2]] = d})

\* C7: push calls the relaxation exactly once for every edge occurrence (i, d)
\* with old_active[i], on old_data[i] and the cell new_data[d], and never for an
\* inactive source; so the counting program ends with data[d] the number of
\* edges into d from active sources.
C7_PushRelaxesActiveEdgesOnce ==
    /\ Pushed =>
          \A occ \in EdgeOccs :
              IF sweep.engine.old_active[occ[1]]
              THEN /\ log[occ].times = 1
                   /\ log[occ].arg = sweep.engine.old_data[occ[1]]
                   /\ log[occ].dst = out_edges(occ[1])[occ[2]]
              ELSE log[occ].times = 0
    /\ (mode.name = "count" /\ cpc = "run" /\ Pending = <<>>) =>
          \A d \in Vertices : old_data[d] = InDegFrom(mode.active, d)

\* the counting program has ended, an active source has incremented a cell and an
\* inactive source has an out-edge
C7_Witness ==
    /\ mode.name = "count" /\ cpc = "run" /\ Pending = <<>>
    /\ \E o1, o2 \in EdgeOccs :
          /\ o1[1] # o2[1]
          /\ o1[1] \in mode.active /\ o2[1] \notin mode.active
          /\ le(1, old_data[out_edges(o1[1])[o1[2]]])

\* C8: right after every step new_data equals old_data and new_active is all false.
C8_StepMirrorsAndResets ==
    (last_call = "step" /\ cpc = "run") =>
        /\ new_data = old_data
        /\ \A i \in Vertices : ~new_active[i]

\* a step of the free controller that installed an active vertex and a datum
C8_Witness ==
    /\ mode.name = "api" /\ last_call = "step" /\ cpc = "run"
    /\ \E i, j \in Vertices : old_active[i] /\ ~old_active[j] /\ old_data[i] # old_data[j]

\* the transition is a completed call of step
IsStep == cpc = "run" /\ cpc' = "run" /\ last_call' = "step"

\* C9: step installs the next-iteration buffers as the current ones: after it
\* old_active and old_data hold what new_active and new_data held before it, and
\* no buffer keeps the previous old contents.
C9_StepInstallsNew ==
    [][IsStep => /\ old_active' = new_active
                 /\ old_data' = new_data
                 /\ new_data' = new_data]_vars

\* a step after a push that replaced old_data and old_active by different contents
C9_Witness ==
    /\ last_call = "step" /\ cpc = "run" /\ sweep.kept /\ sweep.stepped
    /\ old_data # sweep.engine.old_data
    /\ old_active # sweep.engine.old_active

\* the values atomic_min calls offer to the cell d in the push in flight or last made
Offered(d) ==
    {value(func, sweep.engine.old_data[occ[1]]) :
        occ \in {o \in EdgeOccs : sweep.engine.old_active[o[1]]
                                    /\ out_edges(o[1])[o[2]] = d}}

\* every item of the push has finished
AllDone == \A i \in Vertices : tasks[i].pc = "done"

\* C10 (final value, return values): when all atomic_min calls of a push have
\* returned, every cell holds min(initial value, offered values); a call returned
\* true iff its own compare-exchange installed its value over a strictly larger
\* one, and false iff the value it last observed was <= its own.
C10_Returns ==
    (sweep.kept /\ ~sweep.stepped /\ IsAtomicMin(func)) =>
        /\ AllDone =>
              \A d \in Vertices :
                  new_data[d] = SetMin({sweep.engine.new_data[d]} \cup Offered(d))
        /\ \A occ \in EdgeOccs :
              log[occ].returned =>
                  /\ log[occ].ret <=> log[occ].installed
                  /\ log[occ].installed =>
                        lt(value(func, log[occ].arg), log[occ].replaced)
                  /\ ~log[occ].ret => le(log[occ].seen, value(func, log[occ].arg))

\* C10 (monotone): while atomic_min calls run, no cell ever increases.
C10_NeverIncreases ==
    (cpc = "pushing" /\ IsAtomicMin(func)) =>
        \A d \in Vertices : le(new_data'[d], new_data[d])

\* C10: atomic_min under contention.
C10_AtomicMinUnderContention ==
    [][C10_NeverIncreases]_vars /\ []C10_Returns

\* a compare-exchange is about to fail: the cell changed since the call loaded it
C10_Witness ==
    /\ cpc = "pushing" /\ IsAtomicMin(func)
    /\ \E i \in Vertices :
          /\ tasks[i].pc = "cas"
          /\ tasks[i].dst_val # new_data[Dst(i)]

\* C16: save_data_to_file never panics, returns Err whenever creating the file
\* or a write of the data fails, and returns Ok only when every datum is in the
\* file.
C16_SaveReportsIoErrors ==
    saved.called =>
        /\ saved.ret # "panic"
        /\ saved.failure.kind = "create" => saved.ret = "err"
        /\ (saved.exists /\ Len(saved.bytes) < Cardinality(DOMAIN old_data) * SizeOfData)
              => saved.ret = "err"
        /\ saved.ret = "ok" =>
              Len(saved.bytes) = Cardinality(DOMAIN old_data) * SizeOfData

\* the largest hop count of a shortest path from s to a vertex s reaches
Eccentricity(s) == SetMax({Dist(s, v) : v \in Reachable(s)})

\* C18: after every step of the BFS program from source s, the loop has made at
\* most Eccentricity(s) + 1 push/step iterations, and after that many
\* n_active() is 0.
C18_BfsIterationBound ==
    (mode.name = "bfs" /\ cpc = "run" /\ last_call = "step") =>
        /\ iters <= Eccentricity(mode.src_node) + 1
        /\ iters = Eccentricity(mode.src_node) + 1 => n_active = 0

\* the loop has ended after three iterations, on a path of two edges
C18_Witness ==
    /\ mode.name = "bfs" /\ Converged
    /\ iters = 3
    /\ Eccentricity(mode.src_node) = 2

\* a push is in flight, or has returned and no other call has been made since
InOrAfterPush == sweep.kept /\ ~sweep.stepped /\ cpc \in {"pushing", "run"}

\* C19 as claimed: during and after every push with the atomic_min relaxation,
\* new_data[d] <= old_data[d] for every vertex d.
C19_NewNeverAboveOld ==
    (InOrAfterPush /\ IsAtomicMin(func)) =>
        \A d \in Vertices : le(new_data[d], old_data[d])

\* C19: during and after a push with the atomic_min relaxation that started
\* with new_data equal to old_data, as step leaves them, new_data[d] <=
\* old_data[d] for every vertex d.
C19_NewNeverAboveOldFromMirror ==
    (InOrAfterPush /\ IsAtomicMin(func)
        /\ sweep.engine.new_data = sweep.engine.old_data) =>
        \A d \in Vertices : le(new_data[d], old_data[d])

\* a push that started from mirrored buffers has lowered a cell
C19_Witness ==
    /\ InOrAfterPush /\ IsAtomicMin(func)
    /\ sweep.engine.new_data = sweep.engine.old_data
    /\ \E d \in Vertices : lt(new_data[d], old_data[d])

\* n_active() on the buffers e
NActiveOf(e) == Cardinality({i \in DOMAIN e.old_active : e.old_active[i]})

\* the buffers e are as a step leaves them: new_data mirrors old_data and
\* new_active is all false
Mirrored(e) ==
    /\ e.new_data = e.old_data
    /\ \A i \in DOMAIN e.new_active : ~e.new_active[i]

\* a push made with n_active() = 0 calls no relaxation and changes no buffer
IdlePushChangesNothing ==
    (sweep.kept /\ NActiveOf(sweep.engine) = 0) =>
        /\ \A occ \in EdgeOccs : log[occ].times = 0
        /\ ~sweep.stepped => Engine = sweep.engine

\* after the step that follows such a push both data buffers hold the old_data
\* from before the push and n_active() is 0
IdlePushThenStep ==
    /\ new_data = sweep.engine.old_data
    /\ old_data = sweep.engine.old_data
    /\ n_active = 0

\* the push of the sweep was made with n_active() = 0 and the step after it is done
AfterIdlePushAndStep ==
    /\ sweep.kept /\ sweep.stepped /\ cpc = "run" /\ last_call = "step"
    /\ NActiveOf(sweep.engine) = 0

\* C20 as claimed: whenever n_active() = 0, the next push is a no-op and the
\* step after it leaves new_data = old_data = the old_data from before the push
\* and n_active() = 0.
C20_IdlePushIsNoOp ==
    /\ IdlePushChangesNothing
    /\ AfterIdlePushAndStep => IdlePushThenStep

\* C20: whenever n_active() = 0 the next push is a no-op; when moreover the
\* buffers were as a step leaves them (no setter call since), the step after
\* the push leaves new_data = old_data = the old_data from before the push and
\* n_active() = 0.
C20_IdlePushIsNoOpFromMirror ==
    /\ IdlePushChangesNothing
    /\ (AfterIdlePushAndStep /\ Mirrored(sweep.engine)) => IdlePushThenStep

\* an idle push and a step on mirrored buffers that hold different data, on a
\* graph with an edge
C20_Witness ==
    /\ AfterIdlePushAndStep /\ Mirrored(sweep.engine)
    /\ EdgeOccs # {}
    /\ \E i, j \in Vertices : old_data[i] # old_data[j]


\* C22: save_data_to_file writes exactly n_nodes() values of the data type's
\* width, the i-th being old_data[i], the data the last step installed, in
\* increasing vertex-id order, with nothing before, between or after them.
C22_SaveWritesInstalledData ==
    (saved.called /\ saved.failure.kind = "none") =>
        /\ saved.ret = "ok"
        /\ saved.exists
        /\ Len(saved.bytes) = n_nodes(nodes) * SizeOfData
        /\ \A i \in Vertices :
              from_bytes(SubSeq(saved.bytes, i * SizeOfData + 1, (i + 1) * SizeOfData))
                  = old_data[i]

\* the data of two vertices, different from each other and from the pending
\* data, were saved
C22_Witness ==
    /\ saved.called
    /\ saved.failure.kind = "none"
    /\ \E i \in Vertices : new_data[i] # old_data[i]
    /\ \E i, j \in Vertices : old_data[i] # old_data[j]

\* a relaxation call on an edge into d, from a vertex active at the push, has
\* returned true
ReturnedTrueOn(d) ==
    \E occ \in EdgeOccs :
        /\ out_edges(occ[1])[occ[2]] = d
        /\ sweep.engine.old_active[occ[1]]
        /\ log[occ].returned
        /\ log[occ].ret

\* C24: push never stores false into new_active, and when the push has returned
\* new_active[d] is true iff it was true before the push or a relaxation call on
\* an edge (i, d) with active i returned true.
C24_ActivationExactAndMonotone ==
    InOrAfterPush =>
        \A d \in Vertices :
            /\ sweep.engine.new_active[d] => new_active[d]
            /\ new_active[d] => (sweep.engine.new_active[d] \/ ReturnedTrueOn(d))
            /\ (cpc = "run" /\ ReturnedTrueOn(d)) => new_active[d]

\* a push has returned that activated one vertex through a relaxation and kept
\* one that was set before the push and that no relaxation activated
C24_Witness ==
    /\ Pushed
    /\ \E d \in Vertices : new_active[d] /\ ~sweep.engine.new_active[d]
    /\ \E d \in Vertices : sweep.engine.new_active[d] /\ ~ReturnedTrueOn(d)

\* C25: push, set_active, set_data, fill_active and fill_data leave old_active
\* and old_data unchanged, only step changes them; every source value passed to
\* a relaxation during a push is the value old_data holds since the last step.
C25_OnlyStepChangesCurrent ==
    /\ [][~IsStep => (old_active' = old_active /\ old_data' = old_data)]_vars
    /\ [](InOrAfterPush =>
            /\ old_active = sweep.engine.old_active
            /\ old_data = sweep.engine.old_data
            /\ \A occ \in EdgeOccs :
                  log[occ].times > 0 => log[occ].arg = old_data[occ[1]])

\* after setters that made the pending buffers differ from the current ones, a
\* push has called a relaxation whose destination datum it lowered
C25_Witness ==
    /\ InOrAfterPush
    /\ mode.name = "api"
    /\ \E i \in Vertices : sweep.engine.new_data[i] # old_data[i]
    /\ \E i \in Vertices : sweep.engine.new_active[i] # old_active[i]
    /\ \E occ \in EdgeOccs : log[occ].times > 0 /\ log[occ].installed

\* the program is about to push or is inside a push
AtPush ==
    \/ cpc = "pushing"
    \/ cpc = "run" /\ Pending # <<>> /\ Head(Pending).op = "push"

\* C29: in the BFS program, whenever a push starts or runs, every vertex with
\* old_active true has old_data below MAX, so f(v) = v + 1 is never evaluated on
\* MAX and never overflows.
C29_BfsNeverRelaxesMax ==
    mode.name = "bfs" =>
        /\ cpc = "panicked" => saved.ret = "panic"
        /\ cpc = "pushing" =>
              \A i \in Vertices : tasks[i].pc = "call" => ~Overflows(func, old_data[i])
        /\ AtPush => \A i \in Vertices : old_active[i] => lt(old_data[i], MAX)
        /\ \A occ \in EdgeOccs : log[occ].times > 0 => lt(log[occ].arg, MAX)

\* inside a push of the BFS program a relaxation is about to be called while
\* an inactive vertex still holds MAX
C29_Witness ==
    /\ mode.name = "bfs"
    /\ cpc = "pushing"
    /\ \E i \in Vertices : old_active[i] /\ tasks[i].pc = "call"
    /\ \E j \in Vertices : ~old_active[j] /\ old_data[j] = MAX


\* The BFS and the WCC program alone (examples/bfs.rs, examples/wcc.rs)
InitConverge == InitCompute /\ mode.name \in {"bfs", "wcc"}

\* The calls these programs make up to the end of their loop (examples/wcc.rs:
\* 25-45, examples/bfs.rs:24-51) and the steps of their workers.  Their
\* relaxation is atomic_min; the overflow of `v + 1` is left out here because
\* C29_BfsNeverRelaxesMax shows that the BFS program never enables it and the
\* WCC program's f is the identity.
NextConverge ==
    \/ \E idx \in Vertices, status \in BOOLEAN : set_active(idx, status)
    \/ \E idx \in Vertices, data \in DataVals \cup Vertices : set_data(idx, data)
    \/ \E status \in BOOLEAN : fill_active(status)
    \/ \E data \in DataVals : fill_data(data)
    \/ step
    \/ \E f \in Funcs : push(f)
    \/ \E i \in Vertices : atomic_min_load(i)
    \/ \E i \in Vertices : atomic_min_cas(i)
    \/ \E i \in Vertices : mark_active(i)
    \/ push_join

\* The program and the workers of a push keep running: whenever a call or a
\* worker step is possible, one is eventually taken
SpecConverge == InitConverge /\ [][NextConverge]_vars /\ WF_vars(NextConverge)

\* the BFS or WCC program is running: in its initialization or in its loop
Running == mode.name \in {"bfs", "wcc"} /\ cpc \in {"run", "pushing"}

\* C23: for every graph, the loop `push(atomic_min with f = identity or +1);
\* step` repeated while n_active() > 0, started from the WCC or BFS
\* initialization, reaches n_active() = 0 after finitely many iterations, under
\* every interleaving of the workers.
C23_Convergence == Running ~> (Converged /\ n_active = 0)

\* the loop has ended after at least two iterations, the last of which called
\* relaxations that lowered nothing
C23_Witness ==
    /\ Converged
    /\ n_active = 0
    /\ iters >= 2
    /\ \E occ \in EdgeOccs : log[occ].returned /\ ~log[occ].ret

====
